---- MODULE Spec2Model ----
(***************************************************************************)
(* State-machine model of gui/manager/managergui.py: the ManagerGui        *)
(* module (activation, module list, configuration tree, command dispatch,  *)
(* log handling) and its ModuleListItem widgets, together with the         *)
(* external manager that owns tree['defined'], tree['global']['startup']   *)
(* and tree['loaded'].                                                     *)
(***************************************************************************)
EXTENDS Integers, Sequences, FiniteSets, TLC

VARIABLES
    active,       \* the GUI module is between on_activate and on_deactivate
    nAct,         \* number of on_activate calls so far
    defined,      \* manager.tree['defined']: category -> ordered module names
    startup,      \* manager.tree['global']['startup']: list of names
    loaded,       \* manager.tree['loaded']: category -> name -> instance
    modlist,      \* self.modlist: every ModuleListItem ever appended
    layout,       \* guilayout/logiclayout/hwlayout of the current self._mw
    timerConns,   \* slots connected to self.checkTimer.timeout (modlist indices)
    timerOn,      \* self.checkTimer is running
    mgrConns,     \* number of connections of each outbound signal to the manager
    cfgConns,     \* connections sigConfigChanged/sigModulesChanged -> updateConfigWidgets
    logConns,     \* connections sigLoggedMessage -> handleLogEntry
    treeWidget,   \* invisible root item of self._mw.treeWidget
    logwidget,    \* entries added to self._mw.logwidget
    errorShown,   \* entries handed to self.errorDialog.show
    emitted,      \* signals emitted by the last operation
    delivered,    \* manager slots invoked by the last operation
    lastOp,       \* history: the last operation and the item it acted on
    nCfg,         \* history: number of configuration edits by the manager
    builds,       \* history: configuration and result of every module-list build
    polled,       \* history: items whose lookup ran in the last timer tick
    queried,      \* history: items whose getState() was called in the last tick
    received,     \* history: entries handleLogEntry was called with (current window)
    projected,    \* history: the value last handed to fillTreeWidget
    reprojection, \* history: how the last projected value relates to the one before
    modules,      \* self.modules: the module names the console namespace tracks
    namespace,    \* self.namespace: the console kernel's user namespace
    nsConns,      \* connections sigModulesChanged -> updateIPythonModuleList
    tracked,      \* history: self.modules before the last operation's last call of
                  \* updateIPythonModuleList
    updated       \* history: how that call ended, "none" when there was no call

vars == <<active, nAct, defined, startup, loaded, modlist, layout, timerConns,
          timerOn, mgrConns, cfgConns, logConns, treeWidget, logwidget,
          errorShown, emitted, delivered, lastOp, nCfg, builds, polled,
          queried, received, projected, reprojection, modules, namespace,
          nsConns, tracked, updated>>

\* ------------------------------------------------------------- bounds
MaxActivations == 2
MaxCfgChanges == 1
MaxLog == 3

\* ---------------------------------------------------------- universes
\* The categories, in the order updateGUIModuleList fills them.
Cats == <<"gui", "logic", "hardware">>
CatSet == {"gui", "logic", "hardware"}
Names == {"a", "b", "config"}
\* The order in which a mapping keyed by names is listed.
NameOrder == <<"a", "b", "config">>

Range(s) == {s[i] : i \in 1..Len(s)}

Without(s, x) == SelectSeq(s, LAMBDA y : y # x)

\* ------------------------------------------------ configuration values
\* Python values as the projector distinguishes them: type(value) and the
\* payload.  A mapping is its ordered list of [k, val] entries.
Dict(entries) == [t |-> "dict", v |-> entries]
ODict(entries) == [t |-> "odict", v |-> entries]
List(items) == [t |-> "list", v |-> items]
StrV(s) == [t |-> "str", v |-> s]
IntV(n) == [t |-> "int", v |-> n]
ObjV(base, name) == [t |-> "obj", v |-> <<base, name>>]
Entry(k, val) == [k |-> k, val |-> val]

Digits == <<"0", "1", "2", "3", "4", "5", "6", "7", "8", "9">>

RECURSIVE IntStr(_)
IntStr(n) ==
    IF n < 0 THEN "-" \o IntStr(0 - n)
    ELSE IF n < 10 THEN Digits[n + 1]
    ELSE IntStr(n \div 10) \o Digits[(n % 10) + 1]

\* str(val) for a value that is neither dict, OrderedDict nor list.
Str(val) ==
    CASE val.t = "str" -> val.v
      [] val.t = "int" -> IntStr(val.v)
      [] val.t = "bool" -> IF val.v THEN "True" ELSE "False"
      [] val.t = "obj" -> "<" \o val.v[1] \o "." \o val.v[2] \o ">"
      [] OTHER -> "None"

\* ------------------------------------------------------ tree projector
\* QtWidgets.QTreeWidgetItem(): no text, collapsed, no children.  stale is
\* history: the item existed before the current fillTreeWidget call.
NewTreeItem == [text |-> "", expanded |-> FALSE, stale |-> FALSE, children |-> <<>>]

setText(item, s) == [item EXCEPT !.text = s]

setExpanded(item) == [item EXCEPT !.expanded = TRUE]

ListTag(val) ==
    CASE val.t = "dict" -> "[dict]"
      [] val.t = "odict" -> "[odict]"
      [] val.t = "list" -> "[list]"

RECURSIVE fillTreeItem(_, _)
fillTreeItem(item, value) ==
    LET it == setExpanded(item) IN
    IF value.t \in {"dict", "odict"}
    THEN [it EXCEPT !.children = @ \o
            [i \in 1..Len(value.v) |->
                fillTreeItem(setText(NewTreeItem, value.v[i].k), value.v[i].val)]]
    ELSE IF value.t = "list"
    THEN [it EXCEPT !.children = @ \o
            [i \in 1..Len(value.v) |->
                LET val == value.v[i] IN
                IF val.t \in {"dict", "odict", "list"}
                THEN setExpanded(fillTreeItem(setText(NewTreeItem, ListTag(val)), val))
                ELSE setExpanded(setText(NewTreeItem, Str(val)))]]
    ELSE [it EXCEPT !.children = Append(@, setText(NewTreeItem, Str(value)))]

RECURSIVE Aged(_)
Aged(item) ==
    [item EXCEPT !.stale = TRUE,
                 !.children = [i \in 1..Len(item.children) |-> Aged(item.children[i])]]

\* QTreeWidget.clear(): every item below the invisible root is removed.
clear(root) == [root EXCEPT !.children = <<>>]

\* fillTreeWidget without widget.clear().
fillTreeWidget_NoClear(root, value) == fillTreeItem(Aged(root), value)

\* fillTreeWidget(widget, value) on a widget whose invisible root is root.
fillTreeWidget(root, value) == fillTreeItem(clear(Aged(root)), value)

\* A new QTreeWidget: the invisible root, nothing below it.
EmptyTreeWidget == NewTreeItem

\* History: nothing has been projected into the current tree widget.
NoValue == [t |-> "none", v |-> 0]

\* History: how value relates to the value projected before it.
Reprojection(value) ==
    IF projected = NoValue THEN "first"
    ELSE IF projected = value THEN "same" ELSE "other"

\* manager.tree as the value updateConfigWidgets projects.
ManagerTree ==
    Dict(<<
        Entry("global", Dict(<<Entry("startup",
            List([i \in 1..Len(startup) |-> StrV(startup[i])]))>>)),
        Entry("defined", Dict([c \in 1..Len(Cats) |->
            Entry(Cats[c], Dict([i \in 1..Len(defined[Cats[c]]) |->
                Entry(defined[Cats[c]][i], Dict(<<>>))]))])),
        Entry("loaded", Dict(
            LET present == SelectSeq(Cats, LAMBDA c : c \in DOMAIN loaded) IN
            [c \in 1..Len(present) |->
                Entry(present[c], Dict(
                    LET ns == SelectSeq(NameOrder,
                                 LAMBDA n : n \in DOMAIN loaded[present[c]]) IN
                    [i \in 1..Len(ns) |-> Entry(ns[i], ObjV(present[c], ns[i]))]))]))
    >>)

\* ------------------------------------------------------ ModuleListItem
ErrSentinel == "exception, cannot get state"
NotLoaded == "not loaded"
\* Text of statusLabel as ui_module_widget.ui creates it.
UiStatusText == "unloaded"
\* The state strings a loaded module reports.
ModuleStates == {"idle", "running"}

\* ModuleListItem.__init__
ModuleListItem(basename, modulename) ==
    [base |-> basename, name |-> modulename,
     statusLabel |-> UiStatusText, loadButton |-> "Load " \o modulename]

\* The lookup of checkModuleState's try block.
IsLoaded(item) == item.base \in DOMAIN loaded /\ item.name \in DOMAIN loaded[item.base]

\* What an instance's getState() does: return a state string, or raise.
Raises == "<raises>"
Instance(behaviour) == [getState |-> behaviour]

\* module.getState(): the reported state, or an exception.
getState(inst) == IF inst.getState = Raises THEN [ok |-> FALSE, state |-> ""]
                  ELSE [ok |-> TRUE, state |-> inst.getState]

\* checkModuleState without the test of the displayed text: a latched item
\* is polled like any other.
checkModuleState_NoLatch(item) ==
    IF IsLoaded(item)
    THEN LET r == getState(loaded[item.base][item.name]) IN
         [item |-> [item EXCEPT !.statusLabel =
                                   IF r.ok THEN r.state ELSE ErrSentinel],
          looked |-> TRUE, asked |-> TRUE]
    ELSE [item |-> [item EXCEPT !.statusLabel = NotLoaded],
          looked |-> TRUE, asked |-> FALSE]

\* checkModuleState without the else branch: for an absent module the
\* label gets state's initial value ''.
checkModuleState_NoElse(item) ==
    IF item.statusLabel # ErrSentinel
    THEN IF IsLoaded(item)
         THEN LET r == getState(loaded[item.base][item.name]) IN
              [item |-> [item EXCEPT !.statusLabel =
                                        IF r.ok THEN r.state ELSE ErrSentinel],
               looked |-> TRUE, asked |-> TRUE]
         ELSE [item |-> [item EXCEPT !.statusLabel = ""],
               looked |-> TRUE, asked |-> FALSE]
    ELSE [item |-> item, looked |-> FALSE, asked |-> FALSE]

\* checkModuleState without the except clause: a failing query leaves the
\* handler before the label is set.
checkModuleState_NoExcept(item) ==
    IF item.statusLabel # ErrSentinel
    THEN IF IsLoaded(item)
         THEN LET r == getState(loaded[item.base][item.name]) IN
              [item |-> IF r.ok THEN [item EXCEPT !.statusLabel = r.state] ELSE item,
               looked |-> TRUE, asked |-> TRUE]
         ELSE [item |-> [item EXCEPT !.statusLabel = NotLoaded],
               looked |-> TRUE, asked |-> FALSE]
    ELSE [item |-> item, looked |-> FALSE, asked |-> FALSE]

\* checkModuleState: the item after one timer tick, and (history) whether
\* the lookup in tree['loaded'] ran and whether getState() was called.
checkModuleState(item) ==
    IF item.statusLabel # ErrSentinel
    THEN IF IsLoaded(item)
         THEN LET r == getState(loaded[item.base][item.name]) IN
              [item |-> [item EXCEPT !.statusLabel =
                                        IF r.ok THEN r.state ELSE ErrSentinel],
               looked |-> TRUE, asked |-> TRUE]
         ELSE [item |-> [item EXCEPT !.statusLabel = NotLoaded],
               looked |-> TRUE, asked |-> FALSE]
    ELSE [item |-> item, looked |-> FALSE, asked |-> FALSE]

\* loadButtonClicked relabelling the button in every category.
loadButtonClicked_AnyCategory(item) ==
    [item EXCEPT !.loadButton = "Show " \o item.name]

\* loadButtonClicked: the item afterwards (the emit is in the action).
loadButtonClicked(item) ==
    IF item.base = "gui" THEN [item EXCEPT !.loadButton = "Show " \o item.name]
    ELSE item

reloadButtonClicked(item) == item

deactivateButtonClicked(item) == item

cleanupButtonClicked(item) == item

\* ----------------------------------------------------------- ManagerGui
OutSignals == {"sigStartModule", "sigReloadModule", "sigCleanupStatus",
               "sigStopModule", "sigLoadConfig", "sigSaveConfig"}

\* The manager slot each outbound signal is connected to in on_activate.
SlotOf(sig) ==
    CASE sig = "sigStartModule" -> "startModule"
      [] sig = "sigReloadModule" -> "restartModuleSimple"
      [] sig = "sigCleanupStatus" -> "removeStatusFile"
      [] sig = "sigStopModule" -> "deactivateModule"
      [] sig = "sigLoadConfig" -> "loadConfig"
      [] sig = "sigSaveConfig" -> "saveConfig"

\* The ManagerGui signal an item signal is forwarded to in fillModuleList.
ForwardOf(sig) ==
    CASE sig = "sigLoadThis" -> "sigStartModule"
      [] sig = "sigReloadThis" -> "sigReloadModule"
      [] sig = "sigDeactivateThis" -> "sigStopModule"
      [] sig = "sigCleanupStatus" -> "sigCleanupStatus"

Emission(sig, a, b) == [sig |-> sig, a |-> a, b |-> b]

\* Emitting a ManagerGui signal invokes the manager slot once per connection.
Deliver(conns, sig, a, b) ==
    [i \in 1..conns[sig] |-> [slot |-> SlotOf(sig), a |-> a, b |-> b]]

\* The exclusion test with its "not" lost.
Excluded_Inverted(module) == module \notin Range(startup)

\* if not module in self._manager.tree['global']['startup']
Excluded(module) == module \in Range(startup)

\* fillModuleList(layout, base), from the i-th defined module on; g holds
\* self.modlist, the three layouts and the timer's connections.
RECURSIVE fillFrom(_, _, _)
fillFrom(g, base, i) ==
    IF i > Len(defined[base]) THEN g
    ELSE LET module == defined[base][i]
             idx == Len(g.modlist) + 1
         IN  IF ~Excluded(module)
             THEN fillFrom([modlist |-> Append(g.modlist, ModuleListItem(base, module)),
                            layout |-> [g.layout EXCEPT ![base] = Append(@, idx)],
                            timerConns |-> Append(g.timerConns, idx)], base, i + 1)
             ELSE fillFrom(g, base, i + 1)

fillModuleList(g, base) == fillFrom(g, base, 1)

updateGUIModuleList(g) ==
    fillModuleList(fillModuleList(fillModuleList(g, "gui"), "logic"), "hardware")

EmptyLayout == [c \in CatSet |-> <<>>]

Key(item) == <<item.base, item.name>>

Keys(idxs, ml) == [i \in 1..Len(idxs) |-> Key(ml[idxs[i]])]

\* What a module-list build leaves: the items, the containers, the timer wiring.
Snapshot(g) ==
    [items |-> [i \in 1..Len(g.modlist) |-> Key(g.modlist[i])],
     containers |-> [c \in CatSet |-> Keys(g.layout[c], g.modlist)],
     timer |-> Keys(g.timerConns, g.modlist)]

Config == [defined |-> defined, startup |-> startup]

Op(name, i) == [op |-> name, item |-> i]

\* ---------------------------------------------------- console namespace
\* What a name of the console namespace is bound to: the object held in
\* tree['loaded'][base][module] (a module's state changes in place, so the
\* binding is to the object, not to what getState() returns), or one of the
\* objects startIPython binds.
ModuleObj(base, module) == [t |-> "module", base |-> base, name |-> module]
BuiltinObj(name) == [t |-> "builtin", base |-> "", name |-> name]

\* _has_pyqtgraph: the import of pyqtgraph succeeded.
has_pyqtgraph == TRUE

\* The user namespace of a new kernel.
EmptyNamespace == [k \in {} |-> BuiltinObj("")]

\* dict.update(new)
update(ns, new) ==
    [k \in DOMAIN ns \cup DOMAIN new |-> IF k \in DOMAIN new THEN new[k] ELSE ns[k]]

\* dict.pop(key, None) for every key of keys
pop(ns, keys) == [k \in DOMAIN ns \ keys |-> ns[k]]

\* for base in ['hardware', 'logic', 'gui']
ConsoleCats == <<"hardware", "logic", "gui">>

\* The set the two loops of updateIPythonModuleList collect.
currentModules == UNION {DOMAIN loaded[base] : base \in Range(ConsoleCats)}

\* The dict the two loops collect: a later category overwrites an earlier one.
RECURSIVE newNamespaceFrom(_, _)
newNamespaceFrom(new, i) ==
    IF i > Len(ConsoleCats) THEN new
    ELSE newNamespaceFrom(
            update(new, [module \in DOMAIN loaded[ConsoleCats[i]] |->
                            ModuleObj(ConsoleCats[i], module)]),
            i + 1)

newNamespace == newNamespaceFrom(EmptyNamespace, 1)

\* The console state the two operations below work on.
Console == [modules |-> modules, namespace |-> namespace,
            tracked |-> tracked, updated |-> updated]

\* updateIPythonModuleList.  tree['loaded'][base] raises KeyError when the
\* category is missing, which is before anything is assigned.
updateIPythonModuleList(c) ==
    IF \E base \in Range(ConsoleCats) : base \notin DOMAIN loaded
    THEN [c EXCEPT !.updated = "KeyError"]
    ELSE LET discard == c.modules \ currentModules IN
         [modules |-> currentModules,
          namespace |-> pop(update(c.namespace, newNamespace), discard),
          tracked |-> c.modules,
          updated |-> "returned"]

\* startIPython up to its last statement: a new kernel's namespace with the
\* names it binds, then updateIPythonModuleList.
startIPython(c) ==
    LET bound == {"np", "config", "manager"} \cup
                 (IF has_pyqtgraph THEN {"pg"} ELSE {})
    IN  updateIPythonModuleList(
            [c EXCEPT !.namespace =
                update(EmptyNamespace, [k \in bound |-> BuiltinObj(k)])])

\* n calls of updateIPythonModuleList, one per connection of the signal.
RECURSIVE Calls(_, _)
Calls(c, n) == IF n = 0 THEN c ELSE Calls(updateIPythonModuleList(c), n - 1)

\* on_activate: a new main window (layouts, tree widget, log widget, error
\* dialog), the connections, a new started timer, the module list, the
\* console kernel.  Each call adds one more connection of the manager's
\* notifications, of the log handler (one QtLogHandler is installed) and of
\* the outbound signals.  startIPython connects updateIPythonModuleList to
\* sigModulesChanged as its last statement, and on_activate calls
\* updateIPythonModuleList once more after it; when the call inside
\* startIPython raises, neither is reached; what the caller of on_activate
\* does with the exception is outside this file, and the GUI is taken to
\* be active afterwards as well.  The thread and remote views hold no
\* state that the operations below read.
on_activate ==
    LET g == updateGUIModuleList([modlist |-> modlist, layout |-> EmptyLayout,
                                  timerConns |-> <<>>])
    IN  /\ treeWidget' = EmptyTreeWidget
        /\ logwidget' = <<>>
        /\ errorShown' = <<>>
        /\ cfgConns' = cfgConns + 1
        /\ logConns' = logConns + 1
        /\ mgrConns' = [s \in OutSignals |-> mgrConns[s] + 1]
        /\ timerOn' = TRUE
        /\ modlist' = g.modlist
        /\ layout' = g.layout
        /\ timerConns' = g.timerConns
        /\ LET s == startIPython([Console EXCEPT !.tracked = {}, !.updated = "none"])
               c == IF s.updated = "KeyError" THEN s ELSE updateIPythonModuleList(s)
           IN  /\ modules' = c.modules
               /\ namespace' = c.namespace
               /\ tracked' = c.tracked
               /\ updated' = c.updated
               /\ nsConns' = IF s.updated = "KeyError" THEN nsConns ELSE nsConns + 1

OnActivate ==
    /\ ~active
    /\ nAct < MaxActivations
    /\ active' = TRUE
    /\ nAct' = nAct + 1
    /\ on_activate
    /\ builds' = Append(builds, [cfg |-> Config,
                                 snap |-> Snapshot([modlist |-> modlist',
                                                    layout |-> layout',
                                                    timerConns |-> timerConns'])])
    /\ emitted' = <<>>
    /\ delivered' = <<>>
    /\ received' = <<>>
    /\ lastOp' = Op("on_activate", 0)
    /\ projected' = NoValue
    /\ reprojection' = "none"
    /\ polled' = {}
    /\ queried' = {}
    /\ UNCHANGED <<defined, startup, loaded, nCfg>>

\* timeout.disconnect() on a signal without connections raises TypeError.
DisconnectRaises == Len(modlist) > 0 /\ timerConns = <<>>

\* on_deactivate: stop the timer, drop its connections when there are
\* items, disconnect five of the six outbound signals, close the window.
\* When timeout.disconnect() raises, the statements after it do not run.
on_deactivate ==
    /\ timerOn' = FALSE
    /\ timerConns' = IF Len(modlist) > 0 /\ ~DisconnectRaises THEN <<>> ELSE timerConns
    /\ mgrConns' = [s \in OutSignals |->
                      IF ~DisconnectRaises /\
                         s \in {"sigStartModule", "sigReloadModule", "sigStopModule",
                                "sigLoadConfig", "sigSaveConfig"}
                      THEN 0 ELSE mgrConns[s]]

OnDeactivate ==
    /\ active
    /\ active' = FALSE
    /\ on_deactivate
    /\ emitted' = <<>>
    /\ delivered' = <<>>
    /\ lastOp' = Op("on_deactivate", 0)
    /\ polled' = {}
    /\ queried' = {}
    /\ tracked' = {} /\ updated' = "none" /\ UNCHANGED <<modules, namespace, nsConns>>
    /\ UNCHANGED <<nAct, defined, startup, loaded, modlist, layout, cfgConns,
                   logConns, treeWidget, logwidget, errorShown, nCfg, builds,
                   received, projected,
                   reprojection>>

\* ----------------------------------------------------- external manager
\* One edit of tree['defined'] by the manager: a module is defined (at the
\* end of its category) or a definition is removed.  The startup list is
\* read from the configuration file when the manager starts and stays.
ManagerChangesConfig ==
    /\ nCfg < MaxCfgChanges
    /\ \/ \E c \in CatSet, n \in Names :
            /\ n \notin Range(defined[c])
            /\ defined' = [defined EXCEPT ![c] = Append(@, n)]
            /\ startup' = startup
       \/ \E c \in CatSet, n \in Names :
            /\ n \in Range(defined[c])
            /\ defined' = [defined EXCEPT ![c] = Without(@, n)]
            /\ startup' = startup
    /\ nCfg' = nCfg + 1
    /\ emitted' = <<>>
    /\ delivered' = <<>>
    /\ lastOp' = Op("manager.config", 0)
    /\ polled' = {}
    /\ queried' = {}
    /\ tracked' = {} /\ updated' = "none" /\ UNCHANGED <<modules, namespace, nsConns>>
    /\ UNCHANGED <<active, nAct, loaded, modlist, layout, timerConns, timerOn,
                   mgrConns, cfgConns, logConns, treeWidget, logwidget,
                   errorShown, builds, received, projected,
                   reprojection>>

NoModules == [n \in {} |-> Instance("idle")]

\* One change of tree['loaded'] by the manager: a defined module is loaded,
\* a loaded module is removed, a loaded module changes its state or starts
\* or stops failing its state query, a category key is dropped or restored.
ManagerChangesLoaded ==
    /\ \/ \E c \in DOMAIN loaded, n \in Names, s \in ModuleStates :
            /\ n \in Range(defined[c])
            /\ n \notin DOMAIN loaded[c]
            /\ loaded' = [loaded EXCEPT ![c] =
                            [m \in DOMAIN @ \cup {n} |->
                                IF m = n THEN Instance(s) ELSE @[m]]]
       \/ \E c \in DOMAIN loaded : \E n \in DOMAIN loaded[c] :
            loaded' = [loaded EXCEPT ![c] = [m \in DOMAIN @ \ {n} |-> @[m]]]
       \/ \E c \in DOMAIN loaded : \E n \in DOMAIN loaded[c] :
          \E s \in ModuleStates \cup {Raises} :
            /\ Instance(s) # loaded[c][n]
            /\ loaded' = [loaded EXCEPT ![c][n] = Instance(s)]
       \/ \E c \in DOMAIN loaded :
            /\ DOMAIN loaded[c] = {}
            /\ loaded' = [d \in DOMAIN loaded \ {c} |-> loaded[d]]
       \/ \E c \in CatSet \ DOMAIN loaded :
            loaded' = [d \in DOMAIN loaded \cup {c} |->
                          IF d = c THEN NoModules ELSE loaded[d]]
    /\ emitted' = <<>>
    /\ delivered' = <<>>
    /\ lastOp' = Op("manager.loaded", 0)
    /\ polled' = {}
    /\ queried' = {}
    /\ tracked' = {} /\ updated' = "none" /\ UNCHANGED <<modules, namespace, nsConns>>
    /\ UNCHANGED <<active, nAct, defined, startup, modlist, layout, timerConns,
                   timerOn, mgrConns, cfgConns, logConns, treeWidget, logwidget,
                   errorShown, nCfg, builds, received, projected,
                   reprojection>>

\* updateConfigWidgets
updateConfigWidgets == treeWidget' = fillTreeWidget(treeWidget, ManagerTree)

\* The manager emits sigConfigChanged or sigModulesChanged; both are
\* connected to updateConfigWidgets (once per activation so far), and
\* sigModulesChanged to updateIPythonModuleList as well.
Notify(sig) ==
    /\ cfgConns > 0
    /\ updateConfigWidgets
    /\ LET none == [Console EXCEPT !.tracked = {}, !.updated = "none"]
           c == IF sig = "sigModulesChanged" THEN Calls(none, nsConns) ELSE none
       IN  /\ modules' = c.modules
           /\ namespace' = c.namespace
           /\ tracked' = c.tracked
           /\ updated' = c.updated
    /\ UNCHANGED nsConns
    /\ projected' = ManagerTree
    /\ reprojection' = Reprojection(ManagerTree)
    /\ emitted' = <<>>
    /\ delivered' = <<>>
    /\ lastOp' = Op("notify", 0)
    /\ polled' = {}
    /\ queried' = {}
    /\ UNCHANGED <<active, nAct, defined, startup, loaded, modlist, layout,
                   timerConns, timerOn, mgrConns, cfgConns, logConns, logwidget,
                   errorShown, nCfg, builds, received>>

ManagerNotifies == \E sig \in {"sigConfigChanged", "sigModulesChanged"} : Notify(sig)

\* The manager emits sigModulesChanged.
ModulesChanged == Notify("sigModulesChanged")

\* ---------------------------------------------------------- timer tick
\* checkTimer.timeout: every connected item's checkModuleState runs.
TimerTick ==
    /\ timerOn
    /\ modlist' = [i \in 1..Len(modlist) |->
                      IF i \in Range(timerConns) THEN checkModuleState(modlist[i]).item
                      ELSE modlist[i]]
    /\ polled' = {i \in Range(timerConns) : checkModuleState(modlist[i]).looked}
    /\ queried' = {i \in Range(timerConns) : checkModuleState(modlist[i]).asked}
    /\ emitted' = <<>>
    /\ delivered' = <<>>
    /\ lastOp' = Op("tick", 0)
    /\ tracked' = {} /\ updated' = "none" /\ UNCHANGED <<modules, namespace, nsConns>>
    /\ UNCHANGED <<active, nAct, defined, startup, loaded, layout, timerConns,
                   timerOn, mgrConns, cfgConns, logConns, treeWidget, logwidget,
                   errorShown, nCfg, builds, received, projected,
                   reprojection>>

\* -------------------------------------------------------- button clicks
\* The items of the window on screen.
Shown == UNION {Range(layout[c]) : c \in CatSet}

\* A click on a button of item i: the item's signal is emitted with
\* (base, name), forwarded to the ManagerGui signal and from there to the
\* manager; clicked is the handler's effect on the item itself.
Click(i, name, sig, clicked) ==
    /\ active
    /\ i \in Shown
    /\ emitted' = <<Emission(sig, modlist[i].base, modlist[i].name)>>
    /\ delivered' = Deliver(mgrConns, ForwardOf(sig), modlist[i].base, modlist[i].name)
    /\ modlist' = [modlist EXCEPT ![i] = clicked]
    /\ lastOp' = Op(name, i)
    /\ polled' = {}
    /\ queried' = {}
    /\ tracked' = {} /\ updated' = "none" /\ UNCHANGED <<modules, namespace, nsConns>>
    /\ UNCHANGED <<active, nAct, defined, startup, loaded, layout, timerConns,
                   timerOn, mgrConns, cfgConns, logConns, treeWidget, logwidget,
                   errorShown, nCfg, builds, received, projected,
                   reprojection>>

ClickLoad ==
    \E i \in 1..Len(modlist) :
        Click(i, "loadButtonClicked", "sigLoadThis", loadButtonClicked(modlist[i]))

ClickReload ==
    \E i \in 1..Len(modlist) :
        Click(i, "reloadButtonClicked", "sigReloadThis", reloadButtonClicked(modlist[i]))

ClickDeactivate ==
    \E i \in 1..Len(modlist) :
        Click(i, "deactivateButtonClicked", "sigDeactivateThis",
              deactivateButtonClicked(modlist[i]))

ClickCleanup ==
    \E i \in 1..Len(modlist) :
        Click(i, "cleanupButtonClicked", "sigCleanupStatus",
              cleanupButtonClicked(modlist[i]))

\* ------------------------------------------------- configuration files
\* manager._getConfigFile()
CurrentConfigFile == "current.cfg"
\* What the file dialog returns, as the comparison with '' takes it: the
\* chosen file name as a str, or '' when cancelled.
FileNames == {"", "other.cfg"}
\* QMessageBox.question's answer.
Replies == {"Yes", "No"}

\* reloadConfig asking first and emitting only on Yes.
reloadConfig_Gated(reply) ==
    IF reply = "Yes" THEN <<Emission("sigLoadConfig", CurrentConfigFile, TRUE)>>
    ELSE <<>>

\* reloadConfig: the signals emitted when the user answers reply.
reloadConfig(reply) ==
    <<Emission("sigLoadConfig", CurrentConfigFile, reply = "Yes")>>

\* getLoadFile: the signals emitted for the chosen file and the answer.
getLoadFile(filename, reply) ==
    IF filename # "" THEN <<Emission("sigLoadConfig", filename, reply = "Yes")>>
    ELSE <<>>

\* getSaveFile
getSaveFile(filename) ==
    IF filename # "" THEN <<Emission("sigSaveConfig", filename, FALSE)>>
    ELSE <<>>

\* Every emission of a ManagerGui signal reaches the manager's slot.
DeliverAll(ems) ==
    IF ems = <<>> THEN <<>>
    ELSE Deliver(mgrConns, ems[1].sig, ems[1].a, ems[1].b)

MenuAction(name, ems) ==
    /\ active
    /\ emitted' = ems
    /\ delivered' = DeliverAll(ems)
    /\ lastOp' = Op(name, 0)
    /\ polled' = {}
    /\ queried' = {}
    /\ tracked' = {} /\ updated' = "none" /\ UNCHANGED <<modules, namespace, nsConns>>
    /\ UNCHANGED <<active, nAct, defined, startup, loaded, modlist, layout,
                   timerConns, timerOn, mgrConns, cfgConns, logConns,
                   treeWidget, logwidget, errorShown, nCfg, builds, received,
                   projected,
                   reprojection>>

ReloadConfig ==
    \E reply \in Replies :
        MenuAction(IF reply = "Yes" THEN "reloadConfig.yes" ELSE "reloadConfig.no",
                   reloadConfig(reply))

GetLoadFile ==
    \E filename \in FileNames, reply \in Replies :
        MenuAction(IF filename = "" THEN "getLoadFile.cancel"
                   ELSE IF reply = "Yes" THEN "getLoadFile.yes" ELSE "getLoadFile.no",
                   getLoadFile(filename, reply))

GetSaveFile ==
    \E filename \in FileNames :
        MenuAction("getSaveFile", getSaveFile(filename))

\* ---------------------------------------------------------- log entries
Levels == {"info", "warning", "error", "critical"}
Messages == {"m"}
LogEntries == [level : Levels, message : Messages]

\* handleLogEntry opening the popup for level 'error' only.
handleLogEntry_ErrorOnly(entry) ==
    /\ logwidget' = Append(logwidget, entry)
    /\ errorShown' = IF entry.level = "error"
                     THEN Append(errorShown, entry) ELSE errorShown

\* handleLogEntry: the log widget and the error dialog's show calls.
handleLogEntry(entry) ==
    /\ logwidget' = Append(logwidget, entry)
    /\ errorShown' = IF entry.level = "error" \/ entry.level = "critical"
                     THEN Append(errorShown, entry) ELSE errorShown

\* A QtLogHandler emits sigLoggedMessage: one call of the connected slot.
HandleLogEntry ==
    \E entry \in LogEntries :
        /\ logConns > 0
        /\ Len(received) < MaxLog
        /\ handleLogEntry(entry)
        /\ received' = Append(received, entry)
        /\ emitted' = <<>>
        /\ delivered' = <<>>
        /\ lastOp' = Op("handleLogEntry", 0)
        /\ polled' = {}
        /\ queried' = {}
        /\ tracked' = {} /\ updated' = "none" /\ UNCHANGED <<modules, namespace, nsConns>>
        /\ UNCHANGED <<active, nAct, defined, startup, loaded, modlist, layout,
                       timerConns, timerOn, mgrConns, cfgConns, logConns,
                       treeWidget, nCfg, builds, projected,
                   reprojection>>

\* ------------------------------------------------ projecting any value
MaxLen == 2
ScalarVals == {StrV("x"), StrV("1"), IntV(1)}
DictKeys == {"k", "j"}

SeqsUpTo(S, n) == UNION {[1..k -> S] : k \in 0..n}

DistinctKeys(es) == \A i, j \in 1..Len(es) : es[i].k = es[j].k => i = j

EntriesOver(S, n) ==
    {es \in SeqsUpTo([k : DictKeys, val : S], n) : DistinctKeys(es)}

\* Scalars, and the mappings and sequences of up to MaxLen scalars.
FlatValues ==
    ScalarVals
    \cup {List(s) : s \in SeqsUpTo(ScalarVals, MaxLen)}
    \cup {Dict(es) : es \in EntriesOver(ScalarVals, MaxLen)}
    \cup {ODict(es) : es \in EntriesOver(ScalarVals, MaxLen)}

\* The values handed to fillTreeWidget: flat ones, and one more level of
\* nesting around each of them.
ConfigTrees ==
    FlatValues
    \cup {List(<<x>>) : x \in FlatValues}
    \cup {List(<<StrV("x"), x>>) : x \in FlatValues}
    \cup {Dict(<<Entry("k", x)>>) : x \in FlatValues}
    \cup {ODict(<<Entry("k", x), Entry("j", IntV(1))>>) : x \in FlatValues}

\* fillTreeWidget(self._mw.treeWidget, value) for a value of any shape.
ProjectTree ==
    \E value \in ConfigTrees :
        /\ nAct > 0
        /\ treeWidget' = fillTreeWidget(treeWidget, value)
        /\ projected' = value
        /\ reprojection' = Reprojection(value)
        /\ emitted' = <<>>
        /\ delivered' = <<>>
        /\ lastOp' = Op("fillTreeWidget", 0)
        /\ polled' = {}
        /\ queried' = {}
        /\ tracked' = {} /\ updated' = "none" /\ UNCHANGED <<modules, namespace, nsConns>>
        /\ UNCHANGED <<active, nAct, defined, startup, loaded, modlist, layout,
                       timerConns, timerOn, mgrConns, cfgConns, logConns,
                       logwidget, errorShown, nCfg, builds, received>>

\* ------------------------------------------------------- initial states

\* The configurations the manager starts with.
InitConfigs ==
    { [defined |-> [c \in CatSet |-> <<>>], startup |-> <<>>],
      [defined |-> [c \in CatSet |-> IF c = "gui" THEN <<"a", "b">> ELSE <<>>],
       startup |-> <<"a">>],
      [defined |-> [c \in CatSet |->
                       CASE c = "gui" -> <<>>
                         [] c = "logic" -> <<"a">>
                         [] c = "hardware" -> <<"b">>],
       startup |-> <<>>],
      [defined |-> [c \in CatSet |-> IF c = "hardware" THEN <<"config">> ELSE <<>>],
       startup |-> <<>>] }

\* After ManagerGui.__init__, before the first on_activate.
Init ==
    /\ \E cfg \in InitConfigs : defined = cfg.defined /\ startup = cfg.startup
    /\ loaded = [c \in CatSet |-> NoModules]
    /\ active = FALSE
    /\ nAct = 0
    /\ modlist = <<>>
    /\ layout = EmptyLayout
    /\ timerConns = <<>>
    /\ timerOn = FALSE
    /\ mgrConns = [s \in OutSignals |-> 0]
    /\ cfgConns = 0
    /\ logConns = 0
    /\ treeWidget = EmptyTreeWidget
    /\ logwidget = <<>>
    /\ errorShown = <<>>
    /\ emitted = <<>>
    /\ delivered = <<>>
    /\ lastOp = Op("__init__", 0)
    /\ nCfg = 0
    /\ builds = <<>>
    /\ polled = {}
    /\ queried = {}
    /\ received = <<>>
    /\ projected = NoValue
    /\ reprojection = "none"
    /\ modules = {}
    /\ namespace = EmptyNamespace
    /\ nsConns = 0
    /\ tracked = {}
    /\ updated = "none"

\* ------------------------------------------------------- specifications
\* Spec composes every operation.  Each component specification below
\* keeps the activation cycle and the operations its properties are about,
\* which keeps its state space small.
Next ==
    \/ OnActivate
    \/ OnDeactivate
    \/ ManagerChangesConfig
    \/ ManagerChangesLoaded
    \/ ManagerNotifies
    \/ TimerTick
    \/ ClickLoad
    \/ ClickReload
    \/ ClickDeactivate
    \/ ClickCleanup
    \/ ReloadConfig
    \/ GetLoadFile
    \/ GetSaveFile
    \/ HandleLogEntry
    \/ ProjectTree

Spec == Init /\ [][Next]_vars

\* The module list over activation cycles and configuration changes.
NextList == OnActivate \/ OnDeactivate \/ ManagerChangesConfig \/ ManagerNotifies

SpecList == Init /\ [][NextList]_vars

\* State polling against a changing tree['loaded'].
NextPoll == OnActivate \/ OnDeactivate \/ ManagerChangesLoaded \/ TimerTick

SpecPoll == Init /\ [][NextPoll]_vars

\* Buttons and menu actions.
NextDispatch ==
    \/ OnActivate
    \/ OnDeactivate
    \/ ClickLoad
    \/ ClickReload
    \/ ClickDeactivate
    \/ ClickCleanup
    \/ ReloadConfig
    \/ GetLoadFile
    \/ GetSaveFile

SpecDispatch == Init /\ [][NextDispatch]_vars

\* Log entries.
NextLog == OnActivate \/ OnDeactivate \/ HandleLogEntry

SpecLog == Init /\ [][NextLog]_vars

\* The console namespace.
NextConsole == OnActivate \/ OnDeactivate \/ ManagerChangesLoaded \/ ModulesChanged

SpecConsole == Init /\ [][NextConsole]_vars

\* The tree projector on values of any shape.
NextTree == OnActivate \/ ProjectTree

SpecTree == Init /\ [][NextTree]_vars

\* =============================================================== claims
\* The (category, name) pairs a build makes items for.
Wanted ==
    {k \in CatSet \X Names : k[2] \in Range(defined[k[1]]) /\ k[2] \notin Range(startup)}

ItemsOf(key) == {i \in 1..Len(modlist) : Key(modlist[i]) = key}

\* The items polled by the running timer.
Ticked == Range(timerConns)

\* C1: once the module list has been built, and while the configuration is
\* the one it was built from, modlist holds exactly one item for every
\* defined, non-excluded (category, name) and no other item, over any
\* number of on_deactivate/on_activate cycles.
C1_OneItemPerModule ==
    (nAct >= 1 /\ nCfg = 0) =>
        /\ \A key \in Wanted : Cardinality(ItemsOf(key)) = 1
        /\ \A i \in 1..Len(modlist) : Key(modlist[i]) \in Wanted

\* C2: a timer tick turns the display of a polled item whose loaded module
\* fails its state query into the error sentinel, and leaves an item that
\* already displays the sentinel exactly as it is, without looking the
\* module up and without calling getState(), whatever tree['loaded'] holds.
C2_ErrorLatch ==
    [][lastOp'.op = "tick" =>
        \A i \in Ticked :
            /\ (/\ modlist[i].statusLabel # ErrSentinel
                /\ IsLoaded(modlist[i])
                /\ loaded[modlist[i].base][modlist[i].name].getState = Raises)
               => modlist'[i].statusLabel = ErrSentinel
            /\ modlist[i].statusLabel = ErrSentinel
               => (modlist'[i] = modlist[i] /\ i \notin polled' /\ i \notin queried')]_vars

\* C2 witness: a tick has passed over a latched item whose module is by now
\* loaded and answers its state query.
C2_Witness ==
    /\ lastOp.op = "tick"
    /\ \E i \in Ticked :
        /\ modlist[i].statusLabel = ErrSentinel
        /\ i \notin polled
        /\ IsLoaded(modlist[i])
        /\ loaded[modlist[i].base][modlist[i].name].getState \in ModuleStates

\* C3 as stated: a timer tick sets the display of every polled item whose
\* module is absent from tree['loaded'] to 'not loaded', whatever the item
\* displayed before.
C3_AbsentShowsNotLoaded ==
    [][lastOp'.op = "tick" =>
        \A i \in Ticked :
            ~IsLoaded(modlist[i]) => modlist'[i].statusLabel = NotLoaded]_vars

\* C3 amended: a timer tick sets the display of an item whose module is
\* absent to 'not loaded' unless the item displays the error sentinel; an
\* item displaying the sentinel keeps it.
C3_AbsentShowsNotLoadedUnlessLatched ==
    [][lastOp'.op = "tick" =>
        \A i \in Ticked :
            ~IsLoaded(modlist[i]) =>
                modlist'[i].statusLabel =
                    IF modlist[i].statusLabel = ErrSentinel THEN ErrSentinel
                    ELSE NotLoaded]_vars

\* C3 witness: a tick has set 'not loaded' on an item whose category is
\* missing from tree['loaded'], and on one whose name is missing from its
\* category.
C3_Witness ==
    /\ lastOp.op = "tick"
    /\ \E i \in polled \ queried :
        /\ modlist[i].statusLabel = NotLoaded
        /\ modlist[i].base \notin DOMAIN loaded
    /\ \E i \in polled \ queried :
        /\ modlist[i].statusLabel = NotLoaded
        /\ modlist[i].base \in DOMAIN loaded

\* The configuration is the one the last build read.
BuiltFromCurrent == builds # <<>> /\ builds[Len(builds)].cfg = Config

\* C4: after a module-list build no item exists for a defined module that
\* is in the startup list, and every defined module that is not has an item
\* of its own category in that category's container.
C4_ExcludedHaveNoItem ==
    BuiltFromCurrent =>
        /\ \A i \in 1..Len(modlist) :
              ~(/\ modlist[i].name \in Range(defined[modlist[i].base])
                /\ modlist[i].name \in Range(startup))
        /\ \A key \in CatSet \X Names :
              (key[2] \in Range(defined[key[1]]) /\ key[2] \notin Range(startup))
              => \E i \in Range(layout[key[1]]) : Key(modlist[i]) = key

\* C4 witness: built from startup = [a] and gui = {a, b}: an item for
\* (gui, b), none for (gui, a).
C4_Witness ==
    /\ BuiltFromCurrent
    /\ startup = <<"a">>
    /\ defined["gui"] = <<"a", "b">>
    /\ ItemsOf(<<"gui", "b">>) # {}
    /\ ItemsOf(<<"gui", "a">>) = {}

\* C5: a build that reads the same configuration as the build before it
\* leaves the same items, the same container contents and the same timer
\* wiring as that build did.
C5_RebuildIdempotent ==
    \A k \in 2..Len(builds) :
        builds[k].cfg = builds[k - 1].cfg => builds[k].snap = builds[k - 1].snap

\* C6: after the manager's modules-changed or config-changed notification
\* has been handled while the GUI is active, the item list corresponds to
\* the defined-module set: an item exists for (category, name) exactly when
\* the module is defined and not excluded.
C6_NotificationRebuilds ==
    (lastOp.op = "notify" /\ active) =>
        \A key \in CatSet \X Names : (key \in Wanted <=> ItemsOf(key) # {})

\* C7 as stated: when the user answers No in reloadConfig or getLoadFile,
\* no load-config request (sigLoadConfig) is emitted.
C7_DeclineSendsNothing ==
    lastOp.op \in {"reloadConfig.no", "getLoadFile.no"} => emitted = <<>>

\* C7 amended: the answer only sets the restart flag. reloadConfig always
\* emits sigLoadConfig(current file, restart) and getLoadFile emits
\* sigLoadConfig(chosen file, restart) whenever a file was chosen, with
\* restart true exactly for Yes; only a cancelled file dialog emits nothing.
C7_ReplyOnlySetsRestart ==
    /\ lastOp.op \in {"reloadConfig.yes", "reloadConfig.no"} =>
          emitted = <<Emission("sigLoadConfig", CurrentConfigFile,
                               lastOp.op = "reloadConfig.yes")>>
    /\ lastOp.op \in {"getLoadFile.yes", "getLoadFile.no"} =>
          \E f \in FileNames \ {""} :
              emitted = <<Emission("sigLoadConfig", f, lastOp.op = "getLoadFile.yes")>>
    /\ lastOp.op = "getLoadFile.cancel" => emitted = <<>>

\* C7 witness: the user has answered No in reloadConfig and the request has
\* gone out with restart false.
C7_Witness ==
    /\ lastOp.op = "reloadConfig.no"
    /\ Len(emitted) = 1
    /\ emitted[1].sig = "sigLoadConfig"
    /\ emitted[1].a = CurrentConfigFile
    /\ emitted[1].b = FALSE

IsError(entry) == entry.level \in {"error", "critical"}

\* C8: every entry handleLogEntry was called with is in the log widget, in
\* order, and the entries handed to the error dialog are exactly the ones
\* of level 'error' or 'critical', each as often as it was received.
C8_PopupIffError ==
    /\ logwidget = received
    /\ errorShown = SelectSeq(received, IsError)

\* C8 witness: the same error entry received twice and shown twice, with an
\* info entry that was logged and not shown.
C8_Witness ==
    /\ Len(received) = 3
    /\ received[1] = received[2]
    /\ received[1].level = "error"
    /\ received[3].level = "info"
    /\ errorShown = <<received[1], received[2]>>
    /\ Len(logwidget) = 3

\* The item signal each button handler emits.
IntentOf(op) ==
    CASE op = "loadButtonClicked" -> "sigLoadThis"
      [] op = "reloadButtonClicked" -> "sigReloadThis"
      [] op = "deactivateButtonClicked" -> "sigDeactivateThis"
      [] op = "cleanupButtonClicked" -> "sigCleanupStatus"

RECURSIVE NoStale(_)
NoStale(item) ==
    \A i \in 1..Len(item.children) :
        ~item.children[i].stale /\ NoStale(item.children[i])

\* C10: after fillTreeWidget the tree widget holds exactly what projecting
\* the value into an empty widget gives, whatever it held before, and no
\* item that existed before the call is left in it.
C10_ProjectionFromScratch ==
    lastOp.op = "fillTreeWidget" =>
        /\ treeWidget.children = fillTreeItem(EmptyTreeWidget, projected).children
        /\ NoStale(treeWidget)

\* C10 witness: a nested value has been projected right after the same
\* value, into a widget that was not empty.
C10_Witness ==
    /\ lastOp.op = "fillTreeWidget"
    /\ reprojection = "same"
    /\ projected.t = "dict"
    /\ Len(treeWidget.children) = 1
    /\ Len(treeWidget.children[1].children) = 2

\* C11: a timer tick over an item that does not display the error sentinel
\* and whose module is in tree['loaded'] queries the module and displays
\* the state string it reports, or the error sentinel when the query
\* raises; the failure stays inside the handler, so every other item of the
\* same tick is handled as well.
C11_DisplaysReportedState ==
    [][lastOp'.op = "tick" =>
        \A i \in Ticked :
            (modlist[i].statusLabel # ErrSentinel /\ IsLoaded(modlist[i])) =>
                LET reported == loaded[modlist[i].base][modlist[i].name].getState IN
                /\ i \in polled'
                /\ i \in queried'
                /\ modlist'[i] = [modlist[i] EXCEPT !.statusLabel =
                                     IF reported = Raises THEN ErrSentinel
                                     ELSE reported]]_vars

\* C11 witness: one tick has put the sentinel on an item whose query
\* failed and 'running' on another item, whose module reports it.
C11_Witness ==
    /\ lastOp.op = "tick"
    /\ \E i, j \in queried :
        /\ modlist[i].statusLabel = ErrSentinel
        /\ loaded[modlist[i].base][modlist[i].name].getState = Raises
        /\ modlist[j].statusLabel = "running"
        /\ loaded[modlist[j].base][modlist[j].name].getState = "running"

\* The manager command each button is labelled for.
CommandOf(op) ==
    CASE op = "loadButtonClicked" -> "startModule"
      [] op = "reloadButtonClicked" -> "restartModuleSimple"
      [] op = "deactivateButtonClicked" -> "deactivateModule"
      [] op = "cleanupButtonClicked" -> "removeStatusFile"

\* C12: in every activation, one click on an item's Load, Reload,
\* Deactivate or Cleanup button delivers exactly one command to the
\* manager, the one of that button, with the item's (category, name); and
\* once on_deactivate has run none of the six outbound signals is still
\* connected to the manager.
C12_OneCommandPerClick ==
    /\ lastOp.op \in {"loadButtonClicked", "reloadButtonClicked",
                      "deactivateButtonClicked", "cleanupButtonClicked"} =>
           delivered = <<[slot |-> CommandOf(lastOp.op),
                          a |-> modlist[lastOp.item].base,
                          b |-> modlist[lastOp.item].name]>>
    /\ lastOp.op = "on_deactivate" => \A s \in OutSignals : mgrConns[s] = 0

\* The names in the loaded-module mapping over hardware, logic and gui.
LoadedNames ==
    UNION {DOMAIN loaded[c] : c \in {"hardware", "logic", "gui"} \cap DOMAIN loaded}

\* C13: when an operation's last updateIPythonModuleList call has returned,
\* self.modules is the set of the names now loaded, the namespace binds
\* every loaded name to the object loaded under it, no name that was
\* tracked before the call and is no longer loaded is left in the
\* namespace, and the names 'np', 'config' and 'manager' are still bound.
C13_NamespaceFollowsLoaded ==
    updated = "returned" =>
        /\ modules = LoadedNames
        /\ \A c \in DOMAIN loaded : \A n \in DOMAIN loaded[c] :
               n \in DOMAIN namespace /\ namespace[n] = ModuleObj(c, n)
        /\ \A n \in tracked \ LoadedNames : n \notin DOMAIN namespace
        /\ {"np", "config", "manager"} \subseteq DOMAIN namespace
====
